---- MODULE Spec2Model ----
(***************************************************************************)
(* Model of the show registry of the Mission Pinball Framework:            *)
(* ShowController (mpf/core/show_controller.py) with its name table, its   *)
(* id counter and replace_or_advance_show, together with the running-show  *)
(* instances it hands to its callers.                                      *)
(***************************************************************************)
EXTENDS Integers, Sequences, FiniteSets, TLC

(* Python's None and a present value: an optional is a sequence of length  *)
(* at most one, so that None differs from 0, from "" and from the empty    *)
(* list.                                                                   *)
None == <<>>
Some(x) == <<x>>
Val(o) == o[1]

(* ---- bounds ---- *)
(* ids handed out before the model stops creating instances *)
MaxShowId == 2
(* number of steps of every show definition *)
ShowSteps == 2
(* objects (Show, ShowPool) the registry model creates *)
MaxObj == 4

(* ---- Python truthiness, as used by `if x`, `x or y`, `x if x else y` ---- *)
(* an optional list, callable or string: None and the empty list are falsy *)
Truthy(o) == o # None /\ Val(o) # <<>>
(* an optional integer: None and 0 are falsy *)
TruthyInt(o) == o # None /\ Val(o) # 0

(* ---- ShowConfig ---- *)
NoEvents == None
EmptyEvents == Some(<<>>)
OneEvent == Some(<<"ev">>)

(* machine.config['mpf']['default_show_sync_ms'] *)
default_show_sync_ms == 0

create_show_config(name, priority, speed, loops, sync_ms, manual_advance, show_tokens, events_when_played, events_when_stopped, events_when_looped, events_when_paused, events_when_resumed, events_when_advanced, events_when_stepped_back, events_when_updated, events_when_completed) ==
    [name |-> name,
     priority |-> priority,
     speed |-> speed,
     loops |-> loops,
     sync_ms |-> IF sync_ms = None THEN default_show_sync_ms ELSE Val(sync_ms),
     manual_advance |-> manual_advance,
     show_tokens |-> show_tokens,
     events_when_played |-> events_when_played,
     events_when_stopped |-> events_when_stopped,
     events_when_looped |-> events_when_looped,
     events_when_paused |-> events_when_paused,
     events_when_resumed |-> events_when_resumed,
     events_when_advanced |-> events_when_advanced,
     events_when_stepped_back |-> events_when_stepped_back,
     events_when_updated |-> events_when_updated,
     events_when_completed |-> events_when_completed]

(* create_show_config(name) with every keyword argument at its default *)
DefaultConfig(name) ==
    create_show_config(name, 0, 1, -1, None, FALSE, None, None, None, None,
                       None, None, None, None, None, None)

ConfigFields ==
    {"name", "priority", "speed", "loops", "sync_ms", "manual_advance",
     "show_tokens", "events_when_played", "events_when_stopped",
     "events_when_looped", "events_when_paused", "events_when_resumed",
     "events_when_advanced", "events_when_stepped_back",
     "events_when_updated", "events_when_completed"}

(* the configs the callers of the model build: the playback parameters the *)
(* reconciliation reads in every combination the rules tell apart, and one *)
(* config per remaining field that differs from the default in that field  *)
CoreConfigs ==
    {DefaultConfig("a"),
     [DefaultConfig("a") EXCEPT !.manual_advance = TRUE],
     [DefaultConfig("a") EXCEPT !.sync_ms = 500]}

VariantConfigs ==
    {[DefaultConfig("a") EXCEPT !.name = "b"],
     [DefaultConfig("a") EXCEPT !.name = "p"],
     [DefaultConfig("a") EXCEPT !.priority = 1],
     [DefaultConfig("a") EXCEPT !.events_when_played = EmptyEvents],
     [DefaultConfig("a") EXCEPT !.events_when_played = OneEvent],
     [DefaultConfig("a") EXCEPT !.events_when_stopped = OneEvent, !.sync_ms = 500],
     [DefaultConfig("a") EXCEPT !.events_when_completed = OneEvent]}

ShowConfigs == CoreConfigs \cup VariantConfigs

(* start_step as callers pass it: unset, 0, or a step of the show (1-based) *)
StartSteps == {None} \cup {Some(s) : s \in 0..ShowSteps}

(* start_running as callers pass it *)
StartRunning == {TRUE}

(* stop_callback as callers pass it: unset or a callable (a truthy object) *)
StopCallbacks == {None, Some(<<"on_stop">>)}

(* ---- the registry: machine.shows ---- *)
Names == {"a", "b", "p"}

(* the name table once init_phase_1 has run on a machine whose configuration *)
(* declares the show "a" and the show pool "p"                               *)
LoadedShows == [n \in Names |-> IF n = "a" THEN Some([kind |-> "show", obj |-> 1]) ELSE IF n = "p" THEN Some([kind |-> "pool", obj |-> 2]) ELSE None]

(* `name in self.machine.shows` *)
Registered(table, name) == table[name] # None

(* a lookup that never misses *)
ShowFound_Always(registry, name) == TRUE

(* `self.machine.shows[config.name]` does not raise KeyError *)
ShowFound(registry, name) == registry[name] # None

(* a counter that hands out its value without moving past it *)
get_next_show_id_Reuse(counter) == IF counter = 0 THEN 1 ELSE counter

(* get_next_show_id: the counter after the call, which is the id returned *)
get_next_show_id(counter) == counter + 1

(* ---- RunningShow: the instance a play request returns ---- *)
States == {"pending", "running", "paused", "stopped"}

(* RunningShow.stopped *)
Stopped(inst) == inst.state = "stopped"

(* the instance as constructed, before its first step has begun *)
RunningShow(show_config, start_step, start_running, stop_callback, start_callback) ==
    [show_config |-> show_config,
     current_step_index |-> None,
     state |-> "pending",
     first_step_index |-> Some(start_step - 1),
     start_running |-> start_running,
     loop_count_remaining |-> show_config.loops,
     stop_callback |-> stop_callback,
     stop_callback_calls |-> 0,
     start_callback |-> start_callback]

(* the instance leaves pending: its first step begins when it starts running *)
Begin(inst) ==
    IF inst.start_running
    THEN [inst EXCEPT !.state = "running", !.current_step_index = inst.first_step_index, !.first_step_index = None, !.start_callback = None]
    ELSE [inst EXCEPT !.state = "paused", !.start_callback = None]

(* a stop that runs its callback whenever it is called *)
stop_EveryCall(inst) ==
    [inst EXCEPT !.state = "stopped", !.stop_callback_calls = IF inst.stop_callback # None THEN @ + 1 ELSE @]

(* RunningShow.stop() *)
stop(inst) ==
    IF Stopped(inst)
    THEN inst
    ELSE [inst EXCEPT !.state = "stopped", !.stop_callback_calls = IF inst.stop_callback # None THEN @ + 1 ELSE @]

(* an advance that gives up the last of its loops *)
advance_LastLoopDropped(inst) ==
    IF Stopped(inst) \/ inst.current_step_index = None
    THEN inst
    ELSE IF Val(inst.current_step_index) + 1 < ShowSteps
    THEN [inst EXCEPT !.current_step_index = Some(Val(@) + 1)]
    ELSE IF inst.loop_count_remaining = -1
    THEN [inst EXCEPT !.current_step_index = Some(0)]
    ELSE IF inst.loop_count_remaining > 1
    THEN [inst EXCEPT !.current_step_index = Some(0), !.loop_count_remaining = @ - 1]
    ELSE stop(inst)

(* RunningShow.advance(): one step forward, wrapping by the loop rules *)
advance(inst) ==
    IF Stopped(inst) \/ inst.current_step_index = None
    THEN inst
    ELSE IF Val(inst.current_step_index) + 1 < ShowSteps
    THEN [inst EXCEPT !.current_step_index = Some(Val(@) + 1)]
    ELSE IF inst.loop_count_remaining = -1
    THEN [inst EXCEPT !.current_step_index = Some(0)]
    ELSE IF inst.loop_count_remaining > 0
    THEN [inst EXCEPT !.current_step_index = Some(0), !.loop_count_remaining = @ - 1]
    ELSE stop(inst)

(* RunningShow.pause(): tick-driven advancement is frozen *)
pause(inst) == IF inst.state = "running" THEN [inst EXCEPT !.state = "paused"] ELSE inst

(* RunningShow.resume() *)
resume(inst) == IF inst.state = "paused" THEN [inst EXCEPT !.state = "running", !.current_step_index = IF @ = None THEN inst.first_step_index ELSE @, !.first_step_index = None] ELSE inst

(* Show.play_with_config: the new instance; with sync_ms unset it begins at once *)
play_with_config(show_config, start_step, start_running, stop_callback, start_callback) ==
    LET inst == RunningShow(show_config, start_step, start_running, stop_callback, start_callback)
    IN  IF show_config.sync_ms > 0 THEN inst ELSE Begin(inst)

(* ---- ShowController.replace_or_advance_show ---- *)
(* `old_instance and not old_instance.stopped`; old is the optional instance *)
Live(old) == old # None /\ ~Stopped(Val(old))

(* rule 2 without the played events *)
ForcesReplace_NoPlayed(config, stop_callback) ==
    Truthy(stop_callback) \/ Truthy(config.events_when_stopped)

(* rule 2 without the stop callback *)
ForcesReplace_NoStopCallback(config, stop_callback) ==
    Truthy(config.events_when_played) \/ Truthy(config.events_when_stopped)

(* `stop_callback or config.events_when_played or config.events_when_stopped` *)
ForcesReplace(config, stop_callback) ==
    Truthy(stop_callback) \/ Truthy(config.events_when_played) \/ Truthy(config.events_when_stopped)

(* a comparison that looks at the show name only *)
ConfigChanged_NameOnly(old, config) == Val(old).show_config.name # config.name

(* `old_instance.show_config != config`: ShowConfig compares field by field *)
ConfigChanged(old, config) == \E f \in ConfigFields : Val(old).show_config[f] # config[f]

(* the manual_advance test inverted *)
NothingRequested_Inverted(config, start_step) == start_step = None /\ config.manual_advance

(* `start_step is None and not config.manual_advance` *)
NothingRequested(config, start_step) == start_step = None /\ ~config.manual_advance

(* the target step compared with the 0-based index *)
AtTargetStep_ZeroBased(old, start_step) ==
    Val(old).current_step_index # None /\ Some(Val(Val(old).current_step_index)) = start_step

(* `current_step_index is not None and current_step_index + 1 == start_step` *)
AtTargetStep(old, start_step) ==
    Val(old).current_step_index # None /\ Some(Val(Val(old).current_step_index) + 1) = start_step

(* the fast-forward with an unset index counted as the first step *)
OneStepBehind_UnsetAsZero(old, start_step) ==
    Some((IF Val(old).current_step_index = None THEN 0 ELSE Val(Val(old).current_step_index)) + 2) = start_step

(* the fast-forward taken one step too late *)
OneStepBehind_Late(old, start_step) ==
    Val(old).current_step_index # None /\ Some(Val(Val(old).current_step_index) + 3) = start_step

(* `current_step_index is not None and current_step_index + 2 == start_step` *)
OneStepBehind(old, start_step) ==
    Val(old).current_step_index # None /\ Some(Val(Val(old).current_step_index) + 2) = start_step

(* the branch the if/elif chain takes *)
Rule(old, config, start_step, stop_callback) ==
    IF ~Live(old) THEN "play"
    ELSE IF ForcesReplace(config, stop_callback) THEN "stop_old"
    ELSE IF ConfigChanged(old, config) THEN "stop_old"
    ELSE IF NothingRequested(config, start_step) THEN "return_old"
    ELSE IF AtTargetStep(old, start_step) THEN "return_old"
    ELSE IF OneStepBehind(old, start_step) THEN "advance"
    ELSE "stop_old"

(* the sync test inverted *)
StopInSync_Inverted(config) == config.sync_ms = 0

(* the stop of the old show always left to the new one's start *)
StopInSync_Always(config) == TRUE

(* `if config.sync_ms`: stop the old show in sync with the new one *)
StopInSync(config) == config.sync_ms # 0

(* the default applied to an unset step only *)
StartStepOrFirst_UnsetOnly(start_step) == IF start_step = None THEN 1 ELSE Val(start_step)

(* `start_step if start_step else 1` *)
StartStepOrFirst(start_step) == IF TruthyInt(start_step) THEN Val(start_step) ELSE 1

(* the whole call on the instance table, the id counter and the name table: *)
(* the outcome, the instance returned, the calls made in order, the         *)
(* arguments given to play_with_config, and the table and counter it leaves *)
replace_or_advance_show(table, counter, registry, old_instance, config, start_step, start_running, stop_callback) ==
    LET old == IF old_instance = None THEN None ELSE Some(table[Val(old_instance)])
        rule == Rule(old, config, start_step, stop_callback)
        in_sync == rule = "stop_old" /\ StopInSync(config)
        instantly == rule = "stop_old" /\ ~StopInSync(config)
        start_callback == IF in_sync THEN old_instance ELSE None
        stopped_table == IF instantly THEN [table EXCEPT ![Val(old_instance)] = stop(@)] ELSE table
        stop_calls == IF instantly THEN <<"stop">> ELSE <<>>
        id == get_next_show_id(counter)
        args == [show_config |-> config,
                 start_time |-> None,
                 start_step |-> StartStepOrFirst(start_step),
                 start_running |-> start_running,
                 stop_callback |-> stop_callback,
                 start_callback |-> start_callback]
    IN  IF rule = "return_old"
        THEN [outcome |-> "returned", result |-> old_instance, calls |-> <<>>, play |-> None,
              instances |-> table, next_show_id |-> counter]
        ELSE IF rule = "advance"
        THEN [outcome |-> "returned", result |-> old_instance, calls |-> <<"advance">>, play |-> None,
              instances |-> [table EXCEPT ![Val(old_instance)] = advance(@)], next_show_id |-> counter]
        ELSE IF ~ShowFound(registry, config.name)
        THEN [outcome |-> "raised", result |-> None, calls |-> stop_calls \o <<"lookup">>, play |-> None,
              instances |-> stopped_table, next_show_id |-> counter]
        ELSE [outcome |-> "returned", result |-> Some(id),
              calls |-> stop_calls \o <<"lookup", "play_with_config">>, play |-> Some(args),
              instances |-> stopped_table @@ (id :> play_with_config(args.show_config, args.start_step, args.start_running, args.stop_callback, args.start_callback)),
              next_show_id |-> id]

(* ---- TwitchClient: IRC messages handed over to the event loop ---- *)
(* the machine variables a plain chat message sets, in the order of lines 72-80 *)
ChatVars ==
    <<"twitch_last_chat_user", "twitch_last_chat_message", "twitch_last_chat_message_line_count",
      "twitch_last_chat_message_line_1", "twitch_last_chat_message_line_2", "twitch_last_chat_message_line_3",
      "twitch_last_chat_message_line_4", "twitch_last_chat_message_line_5", "twitch_last_chat_message_line_6">>

(* the machine variables a bit donation sets, lines 67-68 *)
BitsVars == <<"twitch_last_bits_user", "twitch_last_bits_amount">>

MachineVars == {ChatVars[k] : k \in DOMAIN ChatVars} \cup {BitsVars[k] : k \in DOMAIN BitsVars}

(* class attribute TWITCH_PLAYS_ENABLED *)
TWITCH_PLAYS_ENABLED == FALSE

(* the public messages: plain chat, a bit donation, one whose bits tag is *)
(* no number, a subscription, and a command                               *)
PubmsgKinds == {"chat", "bits", "bits_malformed", "sub", "command"}

(* the calls of set_machine_variable_in_mpf for the names, in order *)
SetCalls(names, msg) == [k \in DOMAIN names |-> [fn |-> "set_machine_variable_in_mpf", name |-> names[k], msg |-> msg]]

PostCall(event, msg) == [fn |-> "post_event_in_mpf", name |-> event, msg |-> msg]

(* on_pubmsg(c, e): the calls it makes for message msg, in order; int(bits) *)
(* raises after the two variables of line 67-68 when bits is no number      *)
on_pubmsg(kind, msg) ==
    CASE kind = "command" -> IF TWITCH_PLAYS_ENABLED THEN <<PostCall("twitch_flip_left", msg)>> ELSE <<>>
      [] kind = "sub" -> <<PostCall("twitch_subscription", msg)>>
      [] kind = "bits" -> SetCalls(BitsVars, msg) \o <<PostCall("twitch_bit_donation", msg)>>
      [] kind = "bits_malformed" -> SetCalls(BitsVars, msg)
      [] OTHER -> SetCalls(ChatVars, msg) \o <<PostCall("twitch_chat_message", msg)>>

(* loop.call_soon_threadsafe(callback): appended to the loop's ready queue *)
call_soon_threadsafe(tw, callback) ==
    [tw EXCEPT !.ready = Append(@, callback), !.scheduled = Append(@, callback)]

(* the callback run by thread: machine.variables.set_machine_var(name, *)
(* value) or machine.events.post(event, ...)                           *)
run_callback(tw, callback, thread) ==
    IF callback.fn = "set_machine_variable_in_mpf"
    THEN [tw EXCEPT !.machine_vars[callback.name] = callback.msg,
                    !.log = Append(@, [op |-> "set_machine_var", name |-> callback.name, msg |-> callback.msg, thread |-> thread, vars |-> tw.machine_vars])]
    ELSE [tw EXCEPT !.log = Append(@, [op |-> "post", name |-> callback.name, msg |-> callback.msg, thread |-> thread, vars |-> tw.machine_vars])]

(* a variable set where the message is handled, without the loop *)
set_machine_variable_in_mpf_Direct(tw, call) == run_callback(tw, call, "irc")

(* set_machine_variable_in_mpf(name, value) *)
set_machine_variable_in_mpf(tw, call) == call_soon_threadsafe(tw, call)

(* post_event_in_mpf(event, ...) *)
post_event_in_mpf(tw, call) == call_soon_threadsafe(tw, call)

VARIABLES
    shows,          \* machine.shows: name -> optional [kind, obj]
    obj_count,      \* objects created so far (object identity of the entries)
    reg,            \* what the last registry call did
    next_show_id,   \* ShowController._next_show_id
    issued,         \* the ids get_next_show_id has returned, in order
    instances,      \* the running-show instances still referenced, by id
    stopped_ids,    \* ids of the instances that have been stopped
    slot,           \* the instance the caller holds for its logical slot
    last,           \* what the last replace_or_advance_show call did
    built,          \* what the last create_show_config call did
    active,         \* AsyncMode: "inactive", "active", or "stopping" once stop() is under way
    _task,          \* AsyncMode._task
    tasks,          \* the tasks the event loop was given, in order of creation
    done_log,       \* what the last run of AsyncMode._done did
    now,            \* the external time base, in ms
    players,        \* the instances the clock ticks, with what was done to each
    pubmsgs,        \* TwitchClient: the public messages received so far
    irc,            \* where the IRC thread is in on_pubmsg
    ready,          \* the callbacks the event loop has been given and not yet run
    scheduled,      \* every callback given to the loop, in the order given
    machine_vars,   \* machine.variables: name -> the message that set it last
    log             \* what was done to machine.variables and machine.events, in order

vars == <<shows, obj_count, reg, next_show_id, issued, instances, stopped_ids, slot, last, built, active, _task, tasks, done_log, now, players, pubmsgs, irc, ready, scheduled, machine_vars, log>>

(* the variables of the show controller, and the others *)
controller_vars == <<shows, obj_count, reg, next_show_id, issued, instances, stopped_ids, slot, last>>

mode_vars == <<active, _task, tasks, done_log>>

clock_vars == <<now, players>>

twitch_vars == <<pubmsgs, irc, ready, scheduled, machine_vars, log>>

other_vars == <<built, mode_vars, clock_vars, twitch_vars>>

(* ---- the caller that owns the slot, and the clock ---- *)
(* the instances still referenced: the one the caller holds, and the ones a *)
(* referenced instance holds through its start callback (old_instance.stop) *)
RECURSIVE Referenced(_, _)
Referenced(table, ref) ==
    IF ref = None \/ Val(ref) \notin DOMAIN table
    THEN {}
    ELSE {Val(ref)} \cup Referenced(table, table[Val(ref)].start_callback)

(* an instance nobody references any more is disposed of *)
Collect(table, ref) == [i \in Referenced(table, ref) |-> table[i]]

StoppedIn(table) == {i \in DOMAIN table : Stopped(table[i])}

(* a pending instance reaches its sync boundary: its start callback runs, *)
(* then it begins                                                         *)
StartInSync(table, i) ==
    IF i \in DOMAIN table /\ table[i].state = "pending"
    THEN LET cb == table[i].start_callback
             stopped_table == IF cb # None /\ Val(cb) \in DOMAIN table THEN [table EXCEPT ![Val(cb)] = stop(@)] ELSE table
         IN  [stopped_table EXCEPT ![i] = Begin(@)]
    ELSE table

(* every pending instance starts at the boundary, in the order of creation *)
RECURSIVE StartAllInSync(_, _, _)
StartAllInSync(table, i, n) ==
    IF i > n THEN table ELSE StartAllInSync(StartInSync(table, i), i + 1, n)

Init ==
    /\ shows = LoadedShows
    /\ obj_count = 2
    /\ reg = None
    /\ next_show_id = 0
    /\ issued = <<>>
    /\ instances = <<>>
    /\ stopped_ids = {}
    /\ slot = None
    /\ last = None
    /\ built = None
    /\ active = "inactive"
    /\ _task = None
    /\ tasks = <<>>
    /\ done_log = None
    /\ now = 0
    /\ players = <<>>
    /\ pubmsgs = <<>>
    /\ irc = None
    /\ ready = <<>>
    /\ scheduled = <<>>
    /\ machine_vars = [name \in MachineVars |-> 0]
    /\ log = <<>>

(* the caller reconciles its slot with a new play request *)
ReplaceOrAdvanceShow(config, start_step, start_running, stop_callback) ==
    /\ last = None
    /\ \E call \in {replace_or_advance_show(instances, next_show_id, shows, slot, config, start_step, start_running, stop_callback)} :
        LET kept == IF call.outcome = "returned" THEN call.result ELSE slot
        IN
        /\ call.next_show_id <= MaxShowId
        /\ next_show_id' = call.next_show_id
        /\ issued' = IF call.play = None THEN issued ELSE Append(issued, Val(call.result))
        /\ slot' = kept
        /\ instances' = Collect(call.instances, kept)
        /\ stopped_ids' = stopped_ids \cup StoppedIn(call.instances)
        /\ last' = Some([old_instance |-> slot,
                         old |-> IF slot = None THEN None ELSE Some(instances[Val(slot)]),
                         old_after |-> IF slot = None THEN None ELSE Some(call.instances[Val(slot)]),
                         config |-> config,
                         start_step |-> start_step,
                         start_running |-> start_running,
                         stop_callback |-> stop_callback,
                         outcome |-> call.outcome,
                         result |-> call.result,
                         created |-> IF call.play = None THEN None ELSE Some(call.instances[Val(call.result)]),
                         calls |-> call.calls,
                         play |-> call.play,
                         id_before |-> next_show_id,
                         id_after |-> call.next_show_id])
        /\ UNCHANGED <<shows, obj_count, reg>>
        /\ UNCHANGED other_vars

(* the call is over: the caller goes on with the slot it now holds *)
Return ==
    /\ last # None
    /\ last' = None
    /\ UNCHANGED <<shows, obj_count, reg, next_show_id, issued, instances, stopped_ids, slot>>
    /\ UNCHANGED other_vars

(* a step boundary of a running instance, or the caller's advance() *)
Advance(i) ==
    /\ last = None
    /\ i \in DOMAIN instances
    /\ instances[i].state = "running"
    /\ LET table == [instances EXCEPT ![i] = advance(@)]
       IN  /\ instances' = Collect(table, slot)
           /\ stopped_ids' = stopped_ids \cup StoppedIn(table)
    /\ UNCHANGED <<shows, obj_count, reg, next_show_id, issued, slot, last>>
    /\ UNCHANGED other_vars

(* the caller stops the instance it holds *)
Stop ==
    /\ last = None
    /\ slot # None
    /\ LET table == [instances EXCEPT ![Val(slot)] = stop(@)]
       IN  /\ instances' = Collect(table, slot)
           /\ stopped_ids' = stopped_ids \cup StoppedIn(table)
    /\ UNCHANGED <<shows, obj_count, reg, next_show_id, issued, slot, last>>
    /\ UNCHANGED other_vars

(* the time base crosses a sync boundary *)
SyncBoundary ==
    /\ last = None
    /\ \E i \in DOMAIN instances : instances[i].state = "pending"
    /\ LET table == StartAllInSync(instances, 1, next_show_id)
       IN  /\ instances' = Collect(table, slot)
           /\ stopped_ids' = stopped_ids \cup StoppedIn(table)
    /\ UNCHANGED <<shows, obj_count, reg, next_show_id, issued, slot, last>>
    /\ UNCHANGED other_vars

Next ==
    \/ \E config \in ShowConfigs, start_step \in StartSteps, start_running \in StartRunning, stop_callback \in StopCallbacks : ReplaceOrAdvanceShow(config, start_step, start_running, stop_callback)
    \/ \E i \in 1..MaxShowId : Advance(i)
    \/ Stop
    \/ SyncBoundary
    \/ Return

Spec == Init /\ [][Next]_vars

(* ---- the registry while the machine initialises ---- *)
(* machine.shows = dict() *)
NoShows == [n \in Names |-> None]

(* a registration that stores the show without looking for the name *)
register_show_Overwrite(table, name, obj) ==
    [outcome |-> "returned", shows |-> [table EXCEPT ![name] = Some([kind |-> "show", obj |-> obj])]]

(* register_show(name): the name table it leaves; a present name raises *)
register_show(table, name, obj) ==
    IF Registered(table, name)
    THEN [outcome |-> "raised", shows |-> table]
    ELSE [outcome |-> "returned", shows |-> [table EXCEPT ![name] = Some([kind |-> "show", obj |-> obj])]]

(* _create_show_pool(config): one ShowPool stored per name of show_pools *)
RECURSIVE create_show_pool(_, _, _)
create_show_pool(table, show_pools, obj) ==
    IF show_pools = {}
    THEN table
    ELSE LET show_pool_name == CHOOSE n \in show_pools : TRUE
         IN  create_show_pool([table EXCEPT ![show_pool_name] = Some([kind |-> "pool", obj |-> obj])], show_pools \ {show_pool_name}, obj + 1)

InitRegistry ==
    /\ shows = NoShows
    /\ obj_count = 0
    /\ reg = None
    /\ next_show_id = 0
    /\ issued = <<>>
    /\ instances = <<>>
    /\ stopped_ids = {}
    /\ slot = None
    /\ last = None
    /\ built = None
    /\ active = "inactive"
    /\ _task = None
    /\ tasks = <<>>
    /\ done_log = None
    /\ now = 0
    /\ players = <<>>
    /\ pubmsgs = <<>>
    /\ irc = None
    /\ ready = <<>>
    /\ scheduled = <<>>
    /\ machine_vars = [name \in MachineVars |-> 0]
    /\ log = <<>>

RegisterShow(name) ==
    /\ Registered(shows, name) \/ obj_count < MaxObj
    /\ \E call \in {register_show(shows, name, obj_count + 1)} :
        /\ shows' = call.shows
        /\ obj_count' = IF call.outcome = "returned" THEN obj_count + 1 ELSE obj_count
        /\ reg' = Some([op |-> "register_show", names |-> {name}, outcome |-> call.outcome, before |-> shows])
    /\ UNCHANGED <<next_show_id, issued, instances, stopped_ids, slot, last>>
    /\ UNCHANGED other_vars

CreateShowPool(show_pools) ==
    /\ obj_count + Cardinality(show_pools) <= MaxObj
    /\ shows' = create_show_pool(shows, show_pools, obj_count + 1)
    /\ obj_count' = obj_count + Cardinality(show_pools)
    /\ reg' = Some([op |-> "_create_show_pool", names |-> show_pools, outcome |-> "returned", before |-> shows])
    /\ UNCHANGED <<next_show_id, issued, instances, stopped_ids, slot, last>>
    /\ UNCHANGED other_vars

NextRegistry ==
    \/ \E name \in Names : RegisterShow(name)
    \/ \E show_pools \in SUBSET Names : CreateShowPool(show_pools)

SpecRegistry == InitRegistry /\ [][NextRegistry]_vars

(* ---- ids, while shows are registered and play requests reconciled ---- *)
(* the most ids the counter hands out *)
MaxIds == 4

(* the play requests made while ids are drawn *)
IdConfigs == {DefaultConfig("a"), DefaultConfig("b")}

(* a direct call of get_next_show_id *)
GetNextShowId ==
    /\ last = None
    /\ next_show_id < MaxIds
    /\ next_show_id' = get_next_show_id(next_show_id)
    /\ issued' = Append(issued, next_show_id')
    /\ UNCHANGED <<shows, obj_count, reg, instances, stopped_ids, slot, last>>
    /\ UNCHANGED other_vars

NextIds ==
    \/ GetNextShowId
    \/ \E name \in Names : RegisterShow(name)
    \/ \E show_pool_name \in Names : CreateShowPool({show_pool_name})
    \/ \E config \in IdConfigs, start_step \in {None, Some(1)} : ReplaceOrAdvanceShow(config, start_step, TRUE, None)
    \/ Return

SpecIds == Init /\ [][NextIds]_vars

(* ---- one caller that hands back what it was returned, without sync ---- *)
(* the configs of registered shows that start at once *)
SlotConfigs == {config \in ShowConfigs : config.sync_ms = 0 /\ Registered(LoadedShows, config.name)}

NextSlot ==
    \/ \E config \in SlotConfigs, start_step \in StartSteps, start_running \in StartRunning, stop_callback \in StopCallbacks : ReplaceOrAdvanceShow(config, start_step, start_running, stop_callback)
    \/ \E i \in 1..MaxShowId : Advance(i)
    \/ Stop
    \/ Return

SpecSlot == Init /\ [][NextSlot]_vars

(* ---- create_show_config on the values a caller hands in ---- *)
(* the numbers handed in as speed, loops and priority: for these int() and *)
(* float() keep the value                                                  *)
MaxSpeed == 2

MaxLoops == 2

RawSpeeds == -1..MaxSpeed

RawLoops == -3..MaxLoops

RawPriorities == 0..1

RawSyncMs == {None, Some(0), Some(500)}

(* a call of create_show_config: no line of it raises for a number *)
CreateShowConfig(priority, speed, loops, sync_ms, manual_advance) ==
    /\ built = None
    /\ built' = Some([priority |-> priority, speed |-> speed, loops |-> loops, sync_ms |-> sync_ms, manual_advance |-> manual_advance,
                      outcome |-> "returned",
                      result |-> create_show_config("a", priority, speed, loops, sync_ms, manual_advance, None, None, None, None, None, None, None, None, None, None)])
    /\ UNCHANGED controller_vars
    /\ UNCHANGED twitch_vars
    /\ UNCHANGED mode_vars
    /\ UNCHANGED clock_vars

(* the caller drops the config it was given *)
DropShowConfig ==
    /\ built # None
    /\ built' = None
    /\ UNCHANGED controller_vars
    /\ UNCHANGED twitch_vars
    /\ UNCHANGED mode_vars
    /\ UNCHANGED clock_vars

NextConfig ==
    \/ \E priority \in RawPriorities, speed \in RawSpeeds, loops \in RawLoops, sync_ms \in RawSyncMs, manual_advance \in BOOLEAN : CreateShowConfig(priority, speed, loops, sync_ms, manual_advance)
    \/ DropShowConfig

SpecConfig == Init /\ [][NextConfig]_vars

(* ---- AsyncMode: a mode whose main task runs on the event loop ---- *)
(* the most tasks the loop is given *)
MaxTasks == 3

(* loop.create_task(self._run()): a task that has not finished *)
create_task(ts) == Append(ts, [state |-> "pending", must_cancel |-> FALSE, cancel_calls |-> 0, done_callback |-> "added"])

(* Task.cancel(): a request the loop delivers at the task's next step; a *)
(* finished task is left as it is                                        *)
cancel(t) == IF t.state = "pending" THEN [t EXCEPT !.must_cancel = TRUE, !.cancel_calls = @ + 1] ELSE t

(* _started: the task is created and kept in _task *)
_started(ts) == [tasks |-> create_task(ts), _task |-> Some(Len(ts) + 1)]

(* a mode that stops without cancelling its task *)
_stopped_NoCancel(ts, cur) == ts

(* _stopped: self._task.cancel() *)
_stopped(ts, cur) == [ts EXCEPT ![Val(cur)] = cancel(@)]

(* _done(future): future.result() raises what the task raised; only the *)
(* cancellation is swallowed, and then stop() is called                 *)
_done(t) ==
    [state |-> t.state,
     raised |-> t.state = "failed",
     swallowed |-> t.state = "cancelled",
     stop |-> t.state # "failed"]

(* Mode.stop(): a mode that is not active, or already stopping, stays so *)
mode_stop(a) == IF a = "active" THEN "stopping" ELSE a

(* what a finished step of _run leaves the task in *)
Finished == {"done", "failed"}

(* what _run can do with a delivered cancellation: let it through, catch it *)
(* and return, raise something else, or catch it and go on                  *)
Cancelled == {"cancelled", "done", "failed", "pending"}

(* the mode starts: Mode.start runs _started *)
ModeStart ==
    /\ active = "inactive"
    /\ Len(tasks) < MaxTasks
    /\ active' = "active"
    /\ tasks' = _started(tasks).tasks
    /\ _task' = _started(tasks)._task
    /\ UNCHANGED <<done_log, built>>
    /\ UNCHANGED controller_vars
    /\ UNCHANGED twitch_vars
    /\ UNCHANGED clock_vars

(* somebody stops the mode *)
ModeStop ==
    /\ active = "active"
    /\ active' = mode_stop(active)
    /\ UNCHANGED <<_task, tasks, done_log, built>>
    /\ UNCHANGED controller_vars
    /\ UNCHANGED twitch_vars
    /\ UNCHANGED clock_vars

(* the stop is through: Mode runs _stopped *)
ModeStopped ==
    /\ active = "stopping"
    /\ active' = "inactive"
    /\ tasks' = _stopped(tasks, _task)
    /\ UNCHANGED <<_task, done_log, built>>
    /\ UNCHANGED controller_vars
    /\ UNCHANGED twitch_vars
    /\ UNCHANGED clock_vars

(* _run returns or raises *)
TaskFinishes(i, state) ==
    /\ tasks[i].state = "pending"
    /\ ~tasks[i].must_cancel
    /\ tasks' = [tasks EXCEPT ![i].state = state]
    /\ UNCHANGED <<active, _task, done_log, built>>
    /\ UNCHANGED controller_vars
    /\ UNCHANGED twitch_vars
    /\ UNCHANGED clock_vars

(* the loop throws the requested cancellation into _run *)
TaskCancelled(i, state) ==
    /\ tasks[i].state = "pending"
    /\ tasks[i].must_cancel
    /\ tasks' = [tasks EXCEPT ![i].state = state, ![i].must_cancel = FALSE]
    /\ UNCHANGED <<active, _task, done_log, built>>
    /\ UNCHANGED controller_vars
    /\ UNCHANGED twitch_vars
    /\ UNCHANGED clock_vars

(* the loop runs the done callback of a finished task *)
TaskDone(i) ==
    /\ tasks[i].state # "pending"
    /\ tasks[i].done_callback = "added"
    /\ tasks' = [tasks EXCEPT ![i].done_callback = "run"]
    /\ done_log' = Some([task |-> i, active |-> active] @@ _done(tasks[i]))
    /\ active' = IF _done(tasks[i]).stop THEN mode_stop(active) ELSE active
    /\ UNCHANGED <<_task, built>>
    /\ UNCHANGED controller_vars
    /\ UNCHANGED twitch_vars
    /\ UNCHANGED clock_vars

NextAsync ==
    \/ ModeStart
    \/ ModeStop
    \/ ModeStopped
    \/ \E i \in DOMAIN tasks, state \in Finished : TaskFinishes(i, state)
    \/ \E i \in DOMAIN tasks, state \in Cancelled : TaskCancelled(i, state)
    \/ \E i \in DOMAIN tasks : TaskDone(i)

SpecAsync == Init /\ [][NextAsync]_vars

(* ---- RunningShow under the clock: ticks, sync boundaries, commands ---- *)
(* the duration of every step, in ms *)
StepDuration == 100

(* the time a tick can take, in ms: while steps are played, while the *)
(* owner commands its instance, while instances wait for a boundary   *)
TickSizes == {30, 50, 100, 250}

CommandTicks == {100, 250}

SyncTicks == {60, 160}

(* the most instances the clock ticks at a time *)
MaxPlayers == 3

(* the most calls of one kind made on one instance *)
MaxCalls == 2

(* the first multiple of sync_ms after start_time, counted from the start *)
(* time itself                                                           *)
next_sync_boundary_Relative(start_time, sync_ms) == start_time + sync_ms

(* the first multiple of sync_ms after start_time *)
next_sync_boundary(start_time, sync_ms) == ((start_time \div sync_ms) + 1) * sync_ms

(* an instance played at start_time, with the record of what happens to it *)
Player(inst, start_time) ==
    [show |-> inst,
     start_time |-> start_time,
     began |-> IF inst.state = "pending" THEN None ELSE Some([from |-> start_time, at |-> start_time]),
     elapsed_in_step |-> 0,
     ticked |-> 0,
     boundaries |-> 0,
     wraps |-> 0,
     completed |-> FALSE,
     stop_calls |-> 0,
     late_calls |-> 0]

(* one step boundary: the index moves on by one step, wrapping or stopping *)
step_boundary(p) ==
    LET after == advance(p.show)
    IN  [p EXCEPT !.show = after,
                  !.boundaries = @ + 1,
                  !.wraps = IF ~Stopped(after) /\ after.current_step_index = Some(0) THEN @ + 1 ELSE @,
                  !.completed = Stopped(after)]

(* while the accumulated time covers the step, consume it and move on *)
RECURSIVE catch_up(_)
catch_up(p) ==
    IF p.show.state = "running" /\ p.elapsed_in_step >= StepDuration
    THEN catch_up(step_boundary([p EXCEPT !.elapsed_in_step = @ - StepDuration]))
    ELSE p

(* one clock tick on one instance: a pending instance whose boundary is *)
(* crossed begins; a running one that advances by itself accumulates    *)
(* dt * speed                                                           *)
tick(p, from, to) ==
    IF p.show.state = "pending"
    THEN IF to >= next_sync_boundary(p.start_time, p.show.show_config.sync_ms)
         THEN [p EXCEPT !.show = Begin(@), !.began = Some([from |-> from, at |-> to])]
         ELSE p
    ELSE IF p.show.state = "running" /\ ~p.show.show_config.manual_advance
    THEN catch_up([p EXCEPT !.elapsed_in_step = @ + (to - from) * p.show.show_config.speed,
                            !.ticked = @ + (to - from) * p.show.show_config.speed])
    ELSE p

(* the clock has something to do for the instance *)
Ticking(p) == p.show.state = "pending" \/ (p.show.state = "running" /\ ~p.show.show_config.manual_advance)

(* a show is played at the current time *)
Play(speed, loops, sync_ms, manual_advance, stop_callback) ==
    /\ players' = Append(players, Player(play_with_config(create_show_config("a", 0, speed, loops, sync_ms, manual_advance, None, None, None, None, None, None, None, None, None, None), 1, TRUE, stop_callback, None), now))
    /\ UNCHANGED <<now, built>>
    /\ UNCHANGED controller_vars
    /\ UNCHANGED twitch_vars
    /\ UNCHANGED mode_vars

(* the heartbeat: every instance is ticked, in the order of creation *)
Tick(dt) ==
    /\ \E i \in DOMAIN players : Ticking(players[i])
    /\ now' = now + dt
    /\ players' = [i \in DOMAIN players |-> tick(players[i], now, now + dt)]
    /\ UNCHANGED built
    /\ UNCHANGED controller_vars
    /\ UNCHANGED twitch_vars
    /\ UNCHANGED mode_vars

(* a command of the owner on its instance, counted when the instance is *)
(* already stopped                                                      *)
Command(i, after) ==
    /\ Stopped(players[i].show) => players[i].late_calls < MaxCalls
    /\ players' = [players EXCEPT ![i].show = after, ![i].late_calls = IF Stopped(players[i].show) THEN @ + 1 ELSE @]
    /\ UNCHANGED <<now, built>>
    /\ UNCHANGED controller_vars
    /\ UNCHANGED twitch_vars
    /\ UNCHANGED mode_vars

AdvanceShow(i) == Command(i, step_boundary(players[i]).show)

PauseShow(i) == Command(i, pause(players[i].show))

ResumeShow(i) == Command(i, resume(players[i].show))

StopShow(i) ==
    /\ players[i].stop_calls < MaxCalls
    /\ players' = [players EXCEPT ![i].show = stop(@), ![i].stop_calls = @ + 1]
    /\ UNCHANGED <<now, built>>
    /\ UNCHANGED controller_vars
    /\ UNCHANGED twitch_vars
    /\ UNCHANGED mode_vars

(* one instance and everything its owner and the clock can do to it *)
NextCommands ==
    \/ \E loops \in 0..1, sync_ms \in RawSyncMs, manual_advance \in BOOLEAN, stop_callback \in StopCallbacks : players = <<>> /\ Play(1, loops, sync_ms, manual_advance, stop_callback)
    \/ \E dt \in CommandTicks : Tick(dt)
    \/ \E i \in DOMAIN players : AdvanceShow(i) \/ PauseShow(i) \/ ResumeShow(i) \/ StopShow(i)

SpecCommands == Init /\ [][NextCommands]_vars

(* shows played in sync while the clock runs *)
NextSync ==
    \/ \E sync_ms \in {Some(300), Some(500)} : Len(players) < MaxPlayers /\ Play(1, 0, sync_ms, TRUE, None)
    \/ \E dt \in SyncTicks : Tick(dt)

SpecSync == Init /\ [][NextSync]_vars

(* one show with finite loops played to its end; the clock keeps ticking *)
PlayLoops ==
    \E speed \in 1..MaxSpeed, loops \in 0..MaxLoops, stop_callback \in StopCallbacks : players = <<>> /\ Play(speed, loops, None, FALSE, stop_callback)

Heartbeat == \E dt \in TickSizes : Tick(dt)

NextLoop == PlayLoops \/ Heartbeat

SpecLoop == Init /\ [][NextLoop]_vars /\ WF_vars(Heartbeat)

(* ---- the IRC thread and the event loop of the Twitch client ---- *)
(* the most public messages received *)
MaxMessages == 3

(* the Twitch client's share of the state, as the operators take it *)
Twitch == [ready |-> ready, scheduled |-> scheduled, machine_vars |-> machine_vars, log |-> log]

TwitchBecomes(tw) ==
    /\ ready' = tw.ready
    /\ scheduled' = tw.scheduled
    /\ machine_vars' = tw.machine_vars
    /\ log' = tw.log

(* the framework calls on_pubmsg on the IRC thread *)
OnPubmsg(kind) ==
    /\ irc = None
    /\ Len(pubmsgs) < MaxMessages
    /\ pubmsgs' = Append(pubmsgs, kind)
    /\ irc' = Some([msg |-> Len(pubmsgs) + 1, calls |-> on_pubmsg(kind, Len(pubmsgs) + 1)])
    /\ UNCHANGED <<ready, scheduled, machine_vars, log, built>>
    /\ UNCHANGED controller_vars
    /\ UNCHANGED mode_vars
    /\ UNCHANGED clock_vars

(* the IRC thread makes the next call of on_pubmsg *)
IrcCall ==
    /\ irc # None
    /\ Val(irc).calls # <<>>
    /\ LET call == Head(Val(irc).calls)
       IN  TwitchBecomes(IF call.fn = "set_machine_variable_in_mpf"
                         THEN set_machine_variable_in_mpf(Twitch, call)
                         ELSE post_event_in_mpf(Twitch, call))
    /\ irc' = Some([Val(irc) EXCEPT !.calls = Tail(@)])
    /\ UNCHANGED <<pubmsgs, built>>
    /\ UNCHANGED controller_vars
    /\ UNCHANGED mode_vars
    /\ UNCHANGED clock_vars

(* on_pubmsg is over *)
IrcReturn ==
    /\ irc # None
    /\ Val(irc).calls = <<>>
    /\ irc' = None
    /\ UNCHANGED <<pubmsgs, ready, scheduled, machine_vars, log, built>>
    /\ UNCHANGED controller_vars
    /\ UNCHANGED mode_vars
    /\ UNCHANGED clock_vars

(* the event loop runs the callback at the head of its ready queue *)
LoopRunOnce ==
    /\ ready # <<>>
    /\ TwitchBecomes(run_callback([Twitch EXCEPT !.ready = Tail(@)], Head(ready), "loop"))
    /\ UNCHANGED <<pubmsgs, irc, built>>
    /\ UNCHANGED controller_vars
    /\ UNCHANGED mode_vars
    /\ UNCHANGED clock_vars

NextTwitch ==
    \/ \E kind \in PubmsgKinds : OnPubmsg(kind)
    \/ IrcCall
    \/ IrcReturn
    \/ LoopRunOnce

SpecTwitch == Init /\ [][NextTwitch]_vars

(* ======================================================================= *)
(* Properties of replace_or_advance_show, stated on the call just made     *)
(* (last) in the states the call leaves.  In each, c is the record of the  *)
(* call: c.old is the existing instance as it was, c.old_after as the call *)
(* left it, c.created the instance it constructed.                         *)
(* ======================================================================= *)

(* the existing instance of the call is live: present and not stopped *)
LiveBefore(c) == c.old # None /\ Val(c.old).state # "stopped"

(* none of rule 2's forcing conditions holds for the call *)
NotForced(c) ==
    /\ c.stop_callback = None
    /\ ~Truthy(c.config.events_when_played)
    /\ ~Truthy(c.config.events_when_stopped)

(* the call returned the existing instance and did nothing else *)
ReturnedUntouched(c) ==
    /\ c.outcome = "returned"
    /\ c.result = c.old_instance
    /\ c.calls = <<>>
    /\ c.old_after = c.old
    /\ c.created = None
    /\ c.id_after = c.id_before

(* the call replaced the existing instance: it never returned or advanced  *)
(* it; when it returned, it returned an instance constructed under a fresh *)
(* id, with the existing one stopped or its stop handed over as the start  *)
(* callback; when it did not return, the show name is unknown              *)
Replaced(c) ==
    /\ c.result # c.old_instance
    /\ \A k \in 1..Len(c.calls) : c.calls[k] # "advance"
    /\ c.outcome = "returned" =>
        /\ c.created # None
        /\ Val(c.result) = c.id_before + 1
        /\ Val(c.result) # Val(c.old_instance)
        /\ \/ Val(c.old_after).state = "stopped" /\ c.calls[1] = "stop"
           \/ Val(c.created).start_callback = c.old_instance /\ c.old_after = c.old
    /\ c.outcome = "raised" => shows[c.config.name] = None

C2_ForcedReplaceNonNull ==
    last # None =>
        LET c == Val(last)
        IN  (LiveBefore(c) /\ c.config.events_when_played # None) => Replaced(c)

(* C2 amended: reconciling a live instance with a config whose             *)
(* events_when_played is non-empty always replaces it: the call never      *)
(* returns the input instance, and when it returns, it returns an instance *)
(* constructed under a fresh id, even if the config equals the running     *)
(* one and whatever the requested step is.                                 *)
C2_ForcedReplace ==
    last # None =>
        LET c == Val(last)
        IN  (LiveBefore(c) /\ Truthy(c.config.events_when_played)) => Replaced(c)

C2_Witness ==
    /\ last # None
    /\ LiveBefore(Val(last))
    /\ Truthy(Val(last).config.events_when_played)
    /\ Val(Val(last).old).show_config = Val(last).config
    /\ Val(last).start_step = None
    /\ Val(last).stop_callback = None
    /\ Val(last).outcome = "returned"
    /\ Val(last).created # None

(* the call advanced the existing instance once, from step index k to k+1, *)
(* and returned it: no stop, no lookup, no new instance, no new id         *)
AdvancedOnce(c) ==
    /\ c.outcome = "returned"
    /\ c.result = c.old_instance
    /\ c.calls = <<"advance">>
    /\ Val(c.old_after).current_step_index = Some(Val(Val(c.old).current_step_index) + 1)
    /\ Val(c.old_after).state = Val(c.old).state
    /\ c.created = None
    /\ c.id_after = c.id_before

(* the requested step of the call is the current step index plus d *)
RequestedAhead(c, d) ==
    /\ Val(c.old).current_step_index # None
    /\ c.start_step = Some(Val(Val(c.old).current_step_index) + d)

StopAndRestart(c) == LiveBefore(c) /\ c.result # c.old_instance

(* what the call does with the old instance on the stop-and-restart path   *)
C6_HandOver ==
    last # None =>
        LET c == Val(last)
        IN  StopAndRestart(c) =>
                IF c.config.sync_ms # 0
                THEN /\ \A k \in 1..Len(c.calls) : c.calls[k] # "stop"
                     /\ c.old_after = c.old
                     /\ c.outcome = "returned" =>
                            /\ Val(c.play).start_callback = c.old_instance
                            /\ Val(c.created).start_callback = c.old_instance
                            /\ Val(c.created).state = "pending"
                ELSE /\ c.calls[1] = "stop"
                     /\ Val(c.old_after).state = "stopped"
                     /\ c.outcome = "returned" =>
                            /\ c.calls = <<"stop", "lookup", "play_with_config">>
                            /\ Val(c.play).start_callback = None

(* the step in which a pending instance starts stops the instance whose    *)
(* stop it was handed as start callback                                    *)
C6_StopsAtBoundary ==
    \A i \in DOMAIN instances :
        (/\ instances[i].state = "pending"
         /\ instances[i].start_callback # None
         /\ i \in DOMAIN instances'
         /\ instances'[i].state = "running")
            => Val(instances[i].start_callback) \in stopped_ids'

(* C6: on the stop-and-restart path, with new_config.sync_ms nonzero the   *)
(* old instance is not stopped during the call; its stop is handed to the  *)
(* new instance as start callback, so it stops at the boundary on which    *)
(* the new instance starts.  With sync_ms zero the old instance is stopped *)
(* immediately, before the new instance is constructed.                    *)
C6_StopOrdering == []C6_HandOver /\ [][C6_StopsAtBoundary]_vars

C6_Witness ==
    /\ last # None
    /\ StopAndRestart(Val(last))
    /\ Val(last).config.sync_ms # 0
    /\ Val(last).outcome = "returned"
    /\ Val(Val(last).created).start_callback = Val(last).old_instance
    /\ Val(Val(last).old_after).state = "running"
    /\ Val(Val(last).old_instance) \in DOMAIN instances

(* C7: when the existing instance is live, no forcing condition of rule 2  *)
(* holds, the config is unchanged and the requested step equals the        *)
(* current step index + 1, reconciliation returns the existing instance    *)
(* untouched: no stop(), no advance(), no lookup and no new instance.      *)
C7_AlreadyAtTarget ==
    last # None =>
        LET c == Val(last)
        IN  (/\ LiveBefore(c)
             /\ NotForced(c)
             /\ Val(c.old).show_config = c.config
             /\ RequestedAhead(c, 1))
                => ReturnedUntouched(c)

C7_Witness ==
    /\ last # None
    /\ LiveBefore(Val(last))
    /\ NotForced(Val(last))
    /\ Val(Val(last).old).show_config = Val(last).config
    /\ Val(last).config.manual_advance
    /\ RequestedAhead(Val(last), 1)
    /\ Val(last).start_step = Some(2)
    /\ Val(last).result = Val(last).old_instance

(* the call started fresh at the step index first: it called neither       *)
(* stop() nor advance(), looked the name up first, and when it returned,   *)
(* it returned a new instance, under a fresh id, that begins at that step  *)
(* and holds no start callback                                             *)
StartedFresh(c, first) ==
    /\ \A k \in 1..Len(c.calls) : c.calls[k] \notin {"stop", "advance"}
    /\ c.old_after = c.old
    /\ c.calls[1] = "lookup"
    /\ c.outcome = "raised" => shows[c.config.name] = None
    /\ c.outcome = "returned" =>
        /\ shows[c.config.name] # None
        /\ c.created # None
        /\ c.result = Some(c.id_before + 1)
        /\ c.result # c.old_instance
        /\ Val(c.play).start_step = first + 1
        /\ Val(c.play).start_callback = None
        /\ Val(c.created).start_callback = None
        /\ Val(c.created).show_config = c.config
        /\ IF c.config.sync_ms = 0
           THEN Val(c.created).current_step_index = Some(first)
           ELSE Val(c.created).first_step_index = Some(first)

(* C8 as stated: with no existing instance, or a stopped one, the call     *)
(* starts fresh at the requested step, at step 1 when it is unset.         *)
C8_FreshStartAtRequested ==
    last # None =>
        LET c == Val(last)
        IN  ~LiveBefore(c) =>
                StartedFresh(c, IF c.start_step = None THEN 0 ELSE Val(c.start_step) - 1)

(* C8 amended: with no existing instance, or a stopped one, the call calls *)
(* neither stop() nor advance(), looks up new_config.name, and returns a   *)
(* new instance started at the requested step, at step 1 when the          *)
(* requested step is unset or 0, with no start callback attached.          *)
C8_FreshStart ==
    last # None =>
        LET c == Val(last)
        IN  ~LiveBefore(c) =>
                StartedFresh(c, IF c.start_step = None \/ c.start_step = Some(0) THEN 0 ELSE Val(c.start_step) - 1)

C8_Witness ==
    /\ last # None
    /\ Val(last).old # None
    /\ Val(Val(last).old).state = "stopped"
    /\ Val(last).start_step = Some(2)
    /\ Val(last).outcome = "returned"
    /\ Val(Val(last).created).current_step_index = Some(1)

(* C9: a request that reaches the start-fresh or stop-and-restart path     *)
(* with a name that is not in the registry fails with the show-not-found   *)
(* error; no new instance is constructed and no id is allocated.           *)
C9_UnknownShow ==
    last # None =>
        LET c == Val(last)
        IN  (shows[c.config.name] = None /\ (~LiveBefore(c) \/ c.result # c.old_instance)) =>
                /\ c.outcome = "raised"
                /\ c.result = None
                /\ c.created = None
                /\ c.play = None
                /\ c.id_after = c.id_before
                /\ next_show_id = c.id_before
                /\ \A i \in DOMAIN instances : i <= c.id_before
                /\ slot = c.old_instance

C9_Witness ==
    /\ last # None
    /\ shows[Val(last).config.name] = None
    /\ LiveBefore(Val(last))
    /\ Val(last).outcome = "raised"
    /\ Val(last).calls = <<"stop", "lookup">>

(* C10: show and pool names are unique across one combined namespace: a    *)
(* registry call that adds a show or a pool under a name already in use    *)
(* fails with the duplicate-name error, and never replaces the entry.      *)
C10_CombinedNamespace ==
    reg # None =>
        \A n \in Val(reg).names :
            Val(reg).before[n] # None =>
                Val(reg).outcome = "raised" /\ shows[n] = Val(reg).before[n]

(* C11: register_show(name) fails with the duplicate-name error whenever   *)
(* name is already in the registry, and then leaves the name table as it   *)
(* was (the same object stays under name); when name is absent it adds     *)
(* exactly one entry, a show under name, and changes no other entry.       *)
C11_RegisterShow ==
    (reg # None /\ Val(reg).op = "register_show") =>
        \A name \in Val(reg).names :
            IF Val(reg).before[name] # None
            THEN /\ Val(reg).outcome = "raised"
                 /\ shows = Val(reg).before
            ELSE /\ Val(reg).outcome = "returned"
                 /\ shows[name] # None
                 /\ Val(shows[name]).kind = "show"
                 /\ \A other \in Names \ {name} : shows[other] = Val(reg).before[other]

C11_Witness ==
    /\ reg # None
    /\ Val(reg).op = "register_show"
    /\ Val(reg).outcome = "raised"
    /\ \E name \in Val(reg).names : Val(shows[name]).kind = "pool"
    /\ \E other \in Names : shows[other] # None /\ Val(shows[other]).kind = "show"

(* C12: over any sequence of get_next_show_id calls, made directly or by   *)
(* a play request and interleaved with registrations, every id returned is *)
(* strictly greater than all ids returned before it: none is repeated.     *)
C12_IdsIncrease ==
    \A i \in 1..Len(issued) : \A j \in 1..(i - 1) : issued[j] < issued[i]

C12_Witness ==
    /\ Len(issued) >= 3
    /\ reg # None
    /\ \E i \in DOMAIN instances : i > 1 /\ i < issued[Len(issued)]

(* C13: building a ShowConfig with a non-positive speed, or with negative  *)
(* loops other than -1, is rejected with a validation error: no ShowConfig *)
(* carrying such a value is ever returned.                                 *)
C13_ConfigValidated ==
    built # None =>
        LET b == Val(built)
            malformed == b.speed <= 0 \/ (b.loops < 0 /\ b.loops # -1)
        IN  /\ malformed => b.outcome = "raised"
            /\ b.outcome = "returned" => b.result.speed > 0 /\ (b.result.loops >= 0 \/ b.result.loops = -1)

(* C18: when the caller always passes the instance its previous call       *)
(* returned, then after any sequence of successful calls with sync_ms = 0  *)
(* at most one instance the calls created is not stopped, the one returned *)
(* last; every instance a call replaced had stop() called on it.           *)
C18_SingleLiveInstance ==
    /\ \A id \in 1..next_show_id : Some(id) # slot => id \in stopped_ids
    /\ last # None =>
        LET c == Val(last)
        IN  /\ c.outcome = "returned"
            /\ (c.old # None /\ c.result # c.old_instance) =>
                /\ Val(c.old_after).state = "stopped"
                /\ LiveBefore(c) => c.calls[1] = "stop"

C18_Witness ==
    /\ last # None
    /\ LiveBefore(Val(last))
    /\ Val(last).old_instance = Some(1)
    /\ slot = Some(2)
    /\ instances[2].state = "running"
    /\ stopped_ids = {1}

(* C19: when replace_or_advance_show fails with the unknown-show error,    *)
(* the existing instance is left exactly as it was before the call: a live *)
(* existing instance has not been stopped.                                 *)
C19_NoPartialEffect ==
    last # None =>
        LET c == Val(last)
        IN  c.outcome = "raised" =>
                /\ c.old_after = c.old
                /\ \A k \in 1..Len(c.calls) : c.calls[k] # "stop"

(* C20: when the existing instance is live with no current step index, the *)
(* config is unchanged and a step is requested, the call never returns the *)
(* existing instance and never advances it: it stops and restarts, for     *)
(* every requested step.                                                   *)
C20_PendingRestarts ==
    last # None =>
        LET c == Val(last)
        IN  (/\ LiveBefore(c)
             /\ Val(c.old).current_step_index = None
             /\ Val(c.old).show_config = c.config
             /\ c.start_step # None) =>
                /\ Replaced(c)
                /\ c.outcome = "returned"

C20_Witness ==
    /\ last # None
    /\ LiveBefore(Val(last))
    /\ Val(Val(last).old).current_step_index = None
    /\ Val(Val(last).old).show_config = Val(last).config
    /\ Val(last).start_step = Some(2)
    /\ NotForced(Val(last))
    /\ Val(last).created # None

(* C17: the main task of an AsyncMode is cancelled when the mode stops:    *)
(* after any sequence of start, task completion and stop events the mode   *)
(* is never stopped while a main task of it is still running without a     *)
(* cancellation requested on it; and the done callback of a cancelled task *)
(* swallows the cancellation and calls stop() on the mode.                 *)
C17_TaskCancelledOnStop ==
    /\ \A i \in DOMAIN tasks : (Some(i) # _task \/ active = "inactive") =>
        (tasks[i].state = "pending" => tasks[i].cancel_calls > 0)
    /\ (done_log # None /\ Val(done_log).state = "cancelled") =>
        /\ ~Val(done_log).raised
        /\ Val(done_log).swallowed
        /\ Val(done_log).stop

C17_Witness ==
    /\ active = "inactive"
    /\ _task # None
    /\ tasks[Val(_task)].state = "pending"
    /\ tasks[Val(_task)].must_cancel
    /\ done_log # None
    /\ Val(done_log).state = "cancelled"
    /\ Val(done_log).active = "active"

(* C14: stop() is idempotent and safe in every state: once stop() has been *)
(* called on an instance, whether it was pending, running, paused or       *)
(* stopped, the instance is stopped, its stop callback (if registered) has *)
(* run exactly once in total, and later advance, pause and resume calls    *)
(* leave it stopped.                                                       *)
C14_StopIdempotent ==
    \A i \in DOMAIN players :
        LET p == players[i]
        IN  /\ p.stop_calls > 0 =>
                /\ p.show.state = "stopped"
                /\ p.show.stop_callback_calls = (IF p.show.stop_callback = None THEN 0 ELSE 1)
            /\ p.late_calls > 0 => p.show.state = "stopped"

C14_Witness ==
    \E i \in DOMAIN players :
        /\ players[i].stop_calls = 2
        /\ players[i].late_calls = 2
        /\ players[i].show.stop_callback # None
        /\ players[i].show.stop_callback_calls = 1
        /\ players[i].show.current_step_index = None

(* C15: an instance created with sync_ms > 0 stays pending and becomes     *)
(* running only in the tick in which the time base crosses the next        *)
(* multiple of sync_ms after its start time; two instances with the same   *)
(* sync_ms created between two consecutive boundaries become running at    *)
(* the same boundary, in the same tick.                                    *)
C15_SyncAlignment ==
    /\ \A i \in DOMAIN players :
        LET p == players[i]
            sync == p.show.show_config.sync_ms
            boundary == sync * ((p.start_time \div sync) + 1)
        IN  sync > 0 =>
                /\ p.began = None <=> p.show.state = "pending"
                /\ p.began = None => now < boundary
                /\ p.began # None => Val(p.began).from < boundary /\ boundary <= Val(p.began).at
    /\ \A i, j \in DOMAIN players :
        LET sync == players[i].show.show_config.sync_ms
        IN  (/\ sync > 0
             /\ players[j].show.show_config.sync_ms = sync
             /\ players[i].start_time \div sync = players[j].start_time \div sync) =>
                players[i].began = players[j].began

C15_Witness ==
    /\ Len(players) = 3
    /\ players[2].start_time = 120
    /\ players[3].start_time = 340
    /\ players[2].show.show_config.sync_ms = 500
    /\ players[3].show.show_config.sync_ms = 500
    /\ players[2].began = Some([from |-> 340, at |-> 500])
    /\ players[3].began = players[2].began
    /\ players[3].show.state = "running"

(* what the ticks have made of a show that advances by itself: one step    *)
(* boundary for every StepDuration of accumulated time and no more, the    *)
(* index and the loops left as the boundaries crossed so far make them     *)
C16_StepByStep ==
    \A i \in DOMAIN players :
        LET p == players[i]
            L == p.show.show_config.loops
            total == ShowSteps * (L + 1)
            due == p.ticked \div StepDuration
        IN  /\ p.boundaries = (IF due < total THEN due ELSE total)
            /\ p.boundaries < total =>
                /\ p.show.state = "running"
                /\ p.show.current_step_index = Some(p.boundaries % ShowSteps)
                /\ p.wraps = p.boundaries \div ShowSteps
                /\ p.show.loop_count_remaining = L - p.wraps
            /\ p.boundaries = total <=> Stopped(p.show)
            /\ Stopped(p.show) =>
                /\ p.completed
                /\ p.wraps = L
                /\ p.show.loop_count_remaining = 0

(* C16: a running instance that advances by itself, with N steps and       *)
(* finite loops = L, wraps from the last step to step 0 exactly L times,   *)
(* its loop_count_remaining one less at each wrap, and past the last step  *)
(* with none left it stops, completed; while the clock ticks it stops in   *)
(* the end, after N*(L+1) step boundaries, each crossed once.              *)
C16_LoopCompletion ==
    /\ []C16_StepByStep
    /\ (players # <<>>) ~> (players # <<>> /\ Stopped(players[1].show))

C16_Witness ==
    /\ players # <<>>
    /\ players[1].show.show_config.loops = MaxLoops
    /\ players[1].show.show_config.speed = MaxSpeed
    /\ players[1].completed
    /\ players[1].wraps = MaxLoops
    /\ players[1].boundaries = ShowSteps * (MaxLoops + 1)
    /\ players[1].show.stop_callback_calls = 1

(* C21: every event post and machine-variable update an IRC message causes *)
(* is handed to the event loop and run there, never on the IRC thread, in  *)
(* the order it was handed over; so all twitch_last_chat_* variables of a  *)
(* plain chat message are set when its twitch_chat_message event is        *)
(* posted, and the updates of two messages are never interleaved: what a   *)
(* message causes is never run before anything an earlier message caused.  *)
C21_ThreadHandOff ==
    /\ \A k \in DOMAIN log : log[k].thread = "loop"
    /\ Len(log) <= Len(scheduled)
    /\ \A k \in DOMAIN log :
        /\ log[k].name = scheduled[k].name
        /\ log[k].msg = scheduled[k].msg
    /\ \A k \in DOMAIN log :
        (log[k].op = "post" /\ log[k].name = "twitch_chat_message") =>
            \A n \in DOMAIN ChatVars : log[k].vars[ChatVars[n]] = log[k].msg
    /\ \A k \in DOMAIN log : k > 1 => log[k - 1].msg <= log[k].msg

C21_Witness ==
    /\ Len(pubmsgs) = 2
    /\ pubmsgs[1] = "chat"
    /\ pubmsgs[2] = "chat"
    /\ irc # None
    /\ Val(irc).msg = 2
    /\ Len(Val(irc).calls) = 3
    /\ Len(log) = 10
    /\ log[10].op = "post"
    /\ log[10].name = "twitch_chat_message"
    /\ log[10].msg = 1
    /\ Len(ready) = 7

====
